---------------------------- MODULE Spec2Model ----------------------------
(***************************************************************************)
(* Model of OpgPropaceosAscii.__init__ (opacplot2/opg_propaceos.py): the   *)
(* PROPACEOS ascii parser.  One behaviour is one call of the constructor   *)
(* on one file; the actions are the consecutive blocks of __init__.        *)
(*                                                                         *)
(* Text is modelled at the granularity of tokens.  A line is a sequence of *)
(* tokens: a run of asterisks, a run of whitespace (with its width), a     *)
(* word, or a number (written as an integer literal or as a float          *)
(* literal).  Words are atomic: a keyword never matches inside a word.     *)
(* Floating point values are modelled by naturals; exact equality of       *)
(* parsed values (np.in1d) is equality of the naturals.  Every line of the *)
(* file is newline terminated.                                             *)
(***************************************************************************)
EXTENDS Integers, Sequences, FiniteSets, TLC

(***************************************************************************)
(* Tokens and lines                                                        *)
(***************************************************************************)
Star == [t |-> "star", w |-> "", v |-> 1]
Ws(n) == [t |-> "ws", w |-> "", v |-> n]
Sp == Ws(1)
Word(s) == [t |-> "word", w |-> s, v |-> 0]
IntTok(n) == [t |-> "int", w |-> "", v |-> n]
FltTok(n) == [t |-> "float", w |-> "", v |-> n]

IsNum(tok) == tok.t \in {"int", "float"}

Min(a, b) == IF a < b THEN a ELSE b

RECURSIVE Concat(_)
Concat(ss) == IF ss = <<>> THEN <<>> ELSE Head(ss) \o Concat(Tail(ss))

RECURSIVE Prod(_)
Prod(s) == IF s = <<>> THEN 1 ELSE Head(s) * Prod(Tail(s))

\* Python's s[a:b] for 0 <= a, 0 <= b (clipped to the length of s).
PySlice(s, a, b) == SubSeq(s, a + 1, Min(b, Len(s)))

\* re.match(r'\*+\s+.*', line), the line still holding its newline: a run of
\* asterisks at the start, followed by whitespace or by the newline itself.
IsMarker(line) ==
    /\ Len(line) >= 1
    /\ line[1].t = "star"
    /\ (Len(line) = 1 \/ line[2].t = "ws")

(***************************************************************************)
(* str2float and int()                                                     *)
(***************************************************************************)
\* ' '.join(txt): the lines with one blank between them.
RECURSIVE JoinSp(_)
JoinSp(txt) ==
    IF txt = <<>> THEN <<>>
    ELSE IF Len(txt) = 1 THEN txt[1]
    ELSE txt[1] \o <<Sp>> \o JoinSp(Tail(txt))

\* np.fromstring(s, sep=' '): the numbers read from the start of the text,
\* separated by whitespace; reading stops at the first token that is not a
\* number.
RECURSIVE FromString(_)
FromString(toks) ==
    IF toks = <<>> THEN <<>>
    ELSE IF Head(toks).t = "ws" THEN FromString(Tail(toks))
    ELSE IF IsNum(Head(toks)) THEN <<Head(toks).v>> \o FromString(Tail(toks))
    ELSE <<>>

str2float(txt) == FromString(JoinSp(txt))

\* The text with leading and trailing whitespace removed, as int() reads it.
RECURSIVE StripL(_)
StripL(toks) ==
    IF toks # <<>> /\ Head(toks).t = "ws" THEN StripL(Tail(toks)) ELSE toks

RECURSIVE StripR(_)
StripR(toks) ==
    IF toks # <<>> /\ toks[Len(toks)].t = "ws"
    THEN StripR(SubSeq(toks, 1, Len(toks) - 1))
    ELSE toks

\* int(x) succeeds exactly on one integer literal, blanks around it allowed.
IntOk(toks) ==
    LET s == StripR(StripL(toks)) IN Len(s) = 1 /\ s[1].t = "int"

IntOf(toks) == StripR(StripL(toks))[1].v

(***************************************************************************)
(* _parse_header and the keyword table                                     *)
(***************************************************************************)
RECURSIVE Phrase(_)
Phrase(ws) ==
    IF ws = <<>> THEN <<>>
    ELSE IF Len(ws) = 1 THEN <<Word(ws[1])>>
    ELSE <<Word(ws[1]), Sp>> \o Phrase(Tail(ws))

\* re.sub('\s+', ' ', txt): every maximal run of whitespace becomes one blank.
RECURSIVE CollapseWs(_)
CollapseWs(toks) ==
    IF toks = <<>> THEN <<>>
    ELSE IF Head(toks).t = "ws"
         THEN <<Sp>> \o CollapseWs(StripL(Tail(toks)))
         ELSE <<Head(toks)>> \o CollapseWs(Tail(toks))

IsNotStar(tok) == tok.t # "star"

_parse_header(f) == CollapseWs(SelectSeq(Concat(f), IsNotStar))

\* Python's `expr in header` on strings.
Contains(expr, header) ==
    \E i \in 1..(Len(header) - Len(expr) + 1) :
        SubSeq(header, i, i + Len(expr) - 1) = expr

actions == <<
    [expr |-> Phrase(<<"mesh", "parameters", "for", "EoS">>), process |-> "grid_eos", var |-> "None"],
    [expr |-> Phrase(<<"parameters", "for", "opacity">>), process |-> "grid_opac", var |-> "None"],
    [expr |-> Phrase(<<"group", "structure">>), process |-> "groups", var |-> "None"],
    [expr |-> Phrase(<<"Ionization", "Fractions">>), process |-> "array", var |-> "ion_frac"],
    [expr |-> Phrase(<<"Zbar">>), process |-> "array", var |-> "zbar"],
    [expr |-> Phrase(<<"Int.", "Rosseland", "Mean", "Opacity">>), process |-> "array", var |-> "opr_int"],
    [expr |-> Phrase(<<"Int.", "emis.", "Planck", "Mean", "Opacity">>), process |-> "array", var |-> "emp_int"],
    [expr |-> Phrase(<<"Int.", "abs.", "Planck", "Mean", "Opacity">>), process |-> "array", var |-> "opp_int"],
    [expr |-> Phrase(<<"Eint">>), process |-> "array", var |-> "eint"],
    [expr |-> Phrase(<<"Eion">>), process |-> "array", var |-> "eion"],
    [expr |-> Phrase(<<"Eele">>), process |-> "array", var |-> "eele"],
    [expr |-> Phrase(<<"Pion">>), process |-> "array", var |-> "pion"],
    [expr |-> Phrase(<<"Pele">>), process |-> "array", var |-> "pele"],
    [expr |-> Phrase(<<"Rosseland", "Mean", "Opacity">>), process |-> "array", var |-> "opr_mg"],
    [expr |-> Phrase(<<"emission", "Planck", "Mean", "Opacity">>), process |-> "array", var |-> "emp_mg"],
    [expr |-> Phrase(<<"absorption", "Planck", "Mean", "Opacity">>), process |-> "array", var |-> "opp_mg"] >>

MultigroupKeys == {"opr_mg", "emp_mg", "opp_mg"}


(***************************************************************************)
(* The table (self) and its values                                         *)
(***************************************************************************)
IntV(n) == [kind |-> "int", val |-> n, data |-> <<>>, shape |-> <<>>, items |-> <<>>]
ArrV(d) == [kind |-> "array", val |-> 0, data |-> d, shape |-> <<Len(d)>>, items |-> <<>>]
ListV(l) == [kind |-> "list", val |-> 0, data |-> <<>>, shape |-> <<>>, items |-> l]
DerivedV(sh) == [kind |-> "derived", val |-> 0, data |-> <<>>, shape |-> sh, items |-> <<>>]

EmptyTable == [k \in {} |-> IntV(0)]
Has(t, k) == k \in DOMAIN t
Put(t, k, v) == (k :> v) @@ t
Del(t, ks) == [k \in DOMAIN t \ ks |-> t[k]]

NoErr == [type |-> "none", key |-> ""]
Raise(ty, k) == [type |-> ty, key |-> k]

(***************************************************************************)
(* _parse_grid, _parse_groups, _parse_array                                *)
(***************************************************************************)
PerLine == 10

\* N_skip = lambda N: int(np.ceil(N/10.)), for N >= 0.
N_skip(N) == (N + PerLine - 1) \div PerLine

IsNonEmpty(el) == el # <<>>

\* The result of a parser: the table as it stands and the exception raised,
\* if any; what was stored before the exception stays stored.
_parse_grid(t, txt0, section) ==
    LET txt == SelectSeq(txt0, IsNonEmpty)
        temp_lbl == IF section = "eos" THEN "temp_eos" ELSE "temp_opac"
        nion_lbl == IF section = "eos" THEN "nion_eos" ELSE "nion_opac"
        N_temp_lbl == IF section = "eos" THEN "N_temp_eos" ELSE "N_temp_opac"
        N_nion_lbl == IF section = "eos" THEN "N_nion_eos" ELSE "N_nion_opac"
    IN  IF Len(txt) = 0 THEN [tbl |-> t, err |-> Raise("IndexError", "")]
        ELSE IF ~IntOk(txt[1]) THEN [tbl |-> t, err |-> Raise("ValueError", "")]
        ELSE
          LET N_temp == IntOf(txt[1])
              N_temp_skip == N_skip(N_temp)
              t1 == Put(Put(t, N_temp_lbl, IntV(N_temp)),
                        temp_lbl, ArrV(str2float(PySlice(txt, 1, N_temp_skip + 1))))
          IN  IF N_temp_skip + 2 > Len(txt)
              THEN [tbl |-> t1, err |-> Raise("IndexError", "")]
              ELSE IF ~IntOk(txt[N_temp_skip + 2])
              THEN [tbl |-> t1, err |-> Raise("ValueError", "")]
              ELSE
                LET N_nion == IntOf(txt[N_temp_skip + 2])
                    N_nion_skip == N_skip(N_nion)
                    t2 == Put(Put(t1, N_nion_lbl, IntV(N_nion)),
                              nion_lbl,
                              ArrV(str2float(PySlice(txt, N_temp_skip + 2,
                                                     N_temp_skip + 2 + N_nion_skip))))
                IN  [tbl |-> t2, err |-> NoErr]

_parse_groups(t, txt) == [tbl |-> Put(t, "groups", ArrV(str2float(txt))), err |-> NoErr]

\* The multigroup keys stored like the others: the newest array alone.
_parse_array_overwrite(t, txt, key) ==
    IF key \in {"opp_mg", "opr_mg", "emp_mg"}
    THEN [tbl |-> Put(t, key, ListV(<<str2float(txt)>>)), err |-> NoErr]
    ELSE [tbl |-> Put(t, key, ArrV(str2float(txt))), err |-> NoErr]

_parse_array(t, txt, key) ==
    IF key \in {"opp_mg", "opr_mg", "emp_mg"}
    THEN [tbl |-> Put(t, key, ListV(Append(t[key].items, str2float(txt)))), err |-> NoErr]
    ELSE [tbl |-> Put(t, key, ArrV(str2float(txt))), err |-> NoErr]

\* process(data_txt, var) of entry i of the keyword table.
Process(i, t, txt) ==
    CASE actions[i].process = "grid_eos" -> _parse_grid(t, txt, "eos")
      [] actions[i].process = "grid_opac" -> _parse_grid(t, txt, "opac")
      [] actions[i].process = "groups" -> _parse_groups(t, txt)
      [] OTHER -> _parse_array(t, txt, actions[i].var)

\* The loop without its break: every entry whose keyword occurs is invoked.
RECURSIVE DispatchLoopNoBreak(_, _, _, _)
DispatchLoopNoBreak(i, header, txt, st) ==
    IF i > Len(actions) \/ st.err # NoErr THEN st
    ELSE IF Contains(actions[i].expr, header)
         THEN LET r == Process(i, st.tbl, txt)
              IN  DispatchLoopNoBreak(i + 1, header, txt,
                    [tbl |-> r.tbl, err |-> r.err, invoked |-> Append(st.invoked, i)])
         ELSE DispatchLoopNoBreak(i + 1, header, txt, st)

\* for expr, process, var in actions: if expr in header: process(...); break
\* st carries the table, the exception and the log of the entries invoked.
RECURSIVE DispatchLoop(_, _, _, _)
DispatchLoop(i, header, txt, st) ==
    IF i > Len(actions) THEN st
    ELSE IF Contains(actions[i].expr, header)
         THEN LET r == Process(i, st.tbl, txt)
              IN  [tbl |-> r.tbl, err |-> r.err, invoked |-> Append(st.invoked, i)]
         ELSE DispatchLoop(i + 1, header, txt, st)

(***************************************************************************)
(* State of one call of __init__                                           *)
(***************************************************************************)
VARIABLES
    doc,            \* the lines of the file, as `for line in f` yields them
    pc,             \* the block of __init__ about to run, or the block that
                    \* raised when err is an exception; "done" at the return
    f_star,         \* 1 for a marker line, 0 otherwise
    f_raw,          \* the lines without their newline
    section_begin,  \* 0-based line indices, as in the code
    section_mid,
    section_end,
    sidx,           \* sections already dispatched
    tbl,            \* self
    err,            \* the exception that ended the call, or NoErr
    invoked         \* per dispatched section, the keyword entries it invoked

vars == <<doc, pc, f_star, f_raw, section_begin, section_mid, section_end,
          sidx, tbl, err, invoked>>

\* The elements of a finite set of integers in increasing order.
RECURSIVE Sorted(_)
Sorted(S) ==
    IF S = {} THEN <<>>
    ELSE LET m == CHOOSE x \in S : \A y \in S : x <= y
         IN  <<m>> \o Sorted(S \ {m})

\* np.nonzero(np.diff(f_star) == d)[0] + 1
DiffIs(star, d) ==
    Sorted({i \in 1..(Len(star) - 1) : star[i + 1] - star[i] = d})

(***************************************************************************)
(* Lines 115-119: read the file                                            *)
(***************************************************************************)
ReadFile ==
    /\ pc = "read" /\ err = NoErr
    /\ f_star' = [i \in 1..Len(doc) |-> IF IsMarker(doc[i]) THEN 1 ELSE 0]
    /\ f_raw' = doc
    /\ pc' = "scan"
    /\ UNCHANGED <<doc, section_begin, section_mid, section_end, sidx, tbl,
                   err, invoked>>

(***************************************************************************)
(* Lines 121-136: section boundaries                                       *)
(***************************************************************************)
\* section_mid = np.nonzero(np.diff(f_star) == -1)[0][1:] + 1
SectionMid(star) ==
    LET falling == DiffIs(star, -1)
    IN  IF falling = <<>> THEN <<>> ELSE Tail(falling)

\* A slip in the slice: section_end[:-1] = section_begin[:-1].
SectionEndShifted(begin, n) ==
    IF begin = <<>> THEN <<>> ELSE SubSeq(begin, 1, Len(begin) - 1) \o <<n>>

\* section_end[:-1] = section_begin[1:]; section_end[-1] = len(f_raw)
SectionEnd(begin, n) ==
    IF begin = <<>> THEN <<>> ELSE Tail(begin) \o <<n>>

\* The boundaries taken as they come, with no comparison of their numbers.
BoundariesUnchecked(begin, mid, end) == TRUE

\* np.concatenate along axis 1 needs columns of one length (it raises
\* ValueError otherwise); line 135 states the same condition again.
BoundariesAgree(begin, mid, end) ==
    Len(mid) = Len(end) /\ Len(end) = Len(begin)

ScanSections ==
    /\ pc = "scan" /\ err = NoErr
    /\ LET begin == DiffIs(f_star, 1)
       IN  /\ section_begin' = begin
           /\ section_end' = SectionEnd(begin, Len(f_raw))
           /\ IF begin = <<>>
              THEN \* section_end[-1] on an empty array
                   /\ section_mid' = section_mid
                   /\ err' = Raise("IndexError", "")
                   /\ pc' = pc
              ELSE /\ section_mid' = SectionMid(f_star)
                   /\ IF BoundariesAgree(begin, section_mid', section_end')
                      THEN err' = err /\ pc' = "global"
                      ELSE err' = Raise("ValueError", "") /\ pc' = pc
    /\ UNCHANGED <<doc, f_star, f_raw, sidx, tbl, invoked>>

(***************************************************************************)
(* Lines 138, 208-224: the global header                                   *)
(***************************************************************************)
GlobalHeaderStart == 15

expr_list == <<
    [key |-> "Num_ions", label |-> "number of ions:", func |-> "int"],
    [key |-> "Znum", label |-> "atomic #s of gases:", func |-> "str2arr"],
    [key |-> "Anum", label |-> "atomic weight of gas:", func |-> "str2arr"],
    [key |-> "Xnum", label |-> "relative fractions:", func |-> "str2arr"] >>

\* re.match(" <label>\s+", line): one blank, the label, whitespace.
LabelMatch(label, line) ==
    /\ Len(line) >= 3
    /\ line[1] = Sp
    /\ line[2] = Word(label)
    /\ line[3].t = "ws"

\* re.sub(expr, '', line) on a line that holds the label once, at its start.
LabelStrip(line) == SubSeq(line, 4, Len(line))

\* The inner loop over expr_list for one line.
RECURSIVE HeaderLine(_, _, _)
HeaderLine(j, line, st) ==
    IF j > Len(expr_list) \/ st.err # NoErr THEN st
    ELSE IF ~LabelMatch(expr_list[j].label, line) THEN HeaderLine(j + 1, line, st)
    ELSE LET rest == LabelStrip(line)
         IN  IF expr_list[j].func = "int"
             THEN IF IntOk(rest)
                  THEN HeaderLine(j + 1, line,
                         [st EXCEPT !.tbl = Put(st.tbl, expr_list[j].key, IntV(IntOf(rest)))])
                  ELSE [st EXCEPT !.err = Raise("ValueError", "")]
             ELSE HeaderLine(j + 1, line,
                    [st EXCEPT !.tbl = Put(st.tbl, expr_list[j].key, ArrV(FromString(rest)))])

RECURSIVE _parse_global_header(_, _)
_parse_global_header(f, st) ==
    IF f = <<>> \/ st.err # NoErr THEN st
    ELSE _parse_global_header(Tail(f), HeaderLine(1, Head(f), st))

\* The whole of the file before the first section: f_raw[:section_begin[0]].
GlobalHeaderLinesFromTop(raw, begin) == PySlice(raw, 0, begin[1])

\* f_raw[15:section_begin[0]]
GlobalHeaderLines(raw, begin) == PySlice(raw, GlobalHeaderStart, begin[1])

ParseGlobalHeader ==
    /\ pc = "global" /\ err = NoErr
    /\ LET r == _parse_global_header(GlobalHeaderLines(f_raw, section_begin),
                                     [tbl |-> tbl, err |-> NoErr])
       IN  /\ tbl' = r.tbl
           /\ err' = r.err
           /\ pc' = IF r.err = NoErr THEN "lists" ELSE pc
    /\ UNCHANGED <<doc, f_star, f_raw, section_begin, section_mid, section_end,
                   sidx, invoked>>

(***************************************************************************)
(* Lines 159-160: the three multigroup lists start empty                   *)
(***************************************************************************)
InitLists ==
    /\ pc = "lists" /\ err = NoErr
    /\ tbl' = Put(Put(Put(tbl, "opr_mg", ListV(<<>>)), "emp_mg", ListV(<<>>)),
                  "opp_mg", ListV(<<>>))
    /\ pc' = "dispatch"
    /\ UNCHANGED <<doc, f_star, f_raw, section_begin, section_mid, section_end,
                   sidx, err, invoked>>

(***************************************************************************)
(* Lines 162-169: one iteration of the loop over the sections              *)
(***************************************************************************)
HeaderTxt(s) == PySlice(f_raw, section_begin[s], section_mid[s])
DataTxt(s) == PySlice(f_raw, section_mid[s], section_end[s])

DispatchSection ==
    /\ pc = "dispatch" /\ err = NoErr
    /\ sidx < Len(section_begin)
    /\ LET s == sidx + 1
           r == DispatchLoop(1, _parse_header(HeaderTxt(s)), DataTxt(s),
                             [tbl |-> tbl, err |-> NoErr, invoked |-> <<>>])
       IN  /\ tbl' = r.tbl
           /\ err' = r.err
           /\ invoked' = Append(invoked, r.invoked)
           /\ pc' = IF r.err = NoErr THEN "dispatch" ELSE pc
    /\ sidx' = sidx + 1
    /\ UNCHANGED <<doc, f_star, f_raw, section_begin, section_mid, section_end>>

(***************************************************************************)
(* Lines 170-171: the lists become arrays                                  *)
(***************************************************************************)
\* np.array(list of 1-D arrays): a 2-D array when the arrays have one length,
\* a 1-D array of objects (one per array) when they do not, and the empty
\* 1-D array for the empty list.
NpArray(l) ==
    IF l = <<>> THEN ArrV(<<>>)
    ELSE IF \A i \in 1..Len(l) : Len(l[i]) = Len(l[1])
    THEN [kind |-> "array", val |-> 0, data |-> Concat(l),
          shape |-> <<Len(l), Len(l[1])>>, items |-> <<>>]
    ELSE [kind |-> "object", val |-> 0, data |-> <<>>,
          shape |-> <<Len(l)>>, items |-> l]

StackMultigroup ==
    /\ pc = "dispatch" /\ err = NoErr
    /\ sidx = Len(section_begin)
    /\ tbl' = [k \in DOMAIN tbl |->
                 IF k \in MultigroupKeys THEN NpArray(tbl[k].items) ELSE tbl[k]]
    /\ pc' = "counts"
    /\ UNCHANGED <<doc, f_star, f_raw, section_begin, section_mid, section_end,
                   sidx, err, invoked>>

(***************************************************************************)
(* Lines 173-178: the counts                                               *)
(***************************************************************************)
CountKeys == <<"N_temp_eos", "N_nion_eos", "N_temp_opac", "N_nion_opac",
               "groups", "Num_ions">>

\* The first key, in the order the code reads them, that is not in the table.
RECURSIVE FirstMissing(_, _)
FirstMissing(t, ks) ==
    IF ks = <<>> THEN ""
    ELSE IF ~Has(t, Head(ks)) THEN Head(ks)
    ELSE FirstMissing(t, Tail(ks))

ReadCounts ==
    /\ pc = "counts" /\ err = NoErr
    /\ LET miss == FirstMissing(tbl, CountKeys)
           t1 == IF Has(tbl, "groups") /\ miss \in {"", "Num_ions"}
                 THEN Put(tbl, "N_groups", IntV(Len(tbl["groups"].data) - 1))
                 ELSE tbl
       IN  /\ tbl' = t1
           /\ err' = IF miss = "" THEN err ELSE Raise("KeyError", miss)
           /\ pc' = IF miss = "" THEN "reshape" ELSE pc
    /\ UNCHANGED <<doc, f_star, f_raw, section_begin, section_mid, section_end,
                   sidx, invoked>>

(***************************************************************************)
(* Lines 180-197: reshape                                                  *)
(***************************************************************************)
ShapeKeys == {"zbar", "eint", "eele", "eion", "pion", "pele", "opp_int",
              "opr_int", "emp_int", "ion_frac", "emp_mg", "opp_mg", "opr_mg"}

required_shape(t, key) ==
    CASE key \in {"zbar", "eint", "eele", "eion", "pion", "pele"} ->
            <<t["N_nion_eos"].val, t["N_temp_eos"].val>>
      [] key \in {"opp_int", "opr_int", "emp_int"} ->
            <<t["N_nion_opac"].val, t["N_temp_opac"].val>>
      [] key = "ion_frac" ->
            <<t["N_nion_eos"].val, t["N_temp_eos"].val, t["Num_ions"].val>>
      [] OTHER ->
            <<t["N_nion_opac"].val, t["N_temp_opac"].val, t["N_groups"].val>>

Size(v) == Prod(v.shape)

IsNonNeg(n) == n >= 0

\* ndarray.reshape: the sizes must agree; one dimension may be -1 and is then
\* inferred from the size and the other dimensions.
ReshapedShape(v, target) ==
    LET known == SelectSeq(target, IsNonNeg)
    IN  IF Len(known) = Len(target) THEN target
        ELSE [i \in 1..Len(target) |->
                 IF target[i] >= 0 THEN target[i] ELSE Size(v) \div Prod(known)]

\* A reshape that never refuses.
ReshapeUnchecked(v, target) == TRUE

ReshapeOk(v, target) ==
    LET known == SelectSeq(target, IsNonNeg)
    IN  IF Len(known) = Len(target) THEN Size(v) = Prod(target)
        ELSE /\ Len(known) = Len(target) - 1
             /\ \A i \in 1..Len(target) : target[i] >= -1
             /\ Prod(known) > 0
             /\ Size(v) % Prod(known) = 0

\* The exception that reshaping key raises, or NoErr.
ReshapeErr(t, key) ==
    IF ~Has(t, key) THEN Raise("KeyError", key)
    ELSE IF ~ReshapeOk(t[key], required_shape(t, key)) THEN Raise("ValueError", "")
    ELSE NoErr

\* iteritems() visits the keys in the dictionary's own order: the key that
\* raises first is any of those that raise.  The object under construction
\* is dropped with the exception, so the table is left as it was.
Reshape ==
    /\ pc = "reshape" /\ err = NoErr
    /\ LET bad == {k \in ShapeKeys : ReshapeErr(tbl, k) # NoErr}
       IN  IF bad = {}
           THEN /\ tbl' = [k \in DOMAIN tbl |->
                             IF k \in ShapeKeys
                             THEN [tbl[k] EXCEPT !.shape =
                                     ReshapedShape(tbl[k], required_shape(tbl, k))]
                             ELSE tbl[k]]
                /\ err' = err
                /\ pc' = "qeos"
           ELSE /\ \E k \in bad : err' = ReshapeErr(tbl, k)
                /\ tbl' = tbl
                /\ pc' = pc
    /\ UNCHANGED <<doc, f_star, f_raw, section_begin, section_mid, section_end,
                   sidx, invoked>>

(***************************************************************************)
(* Lines 199, 280-289: remove_extra_qeos_pt                                *)
(***************************************************************************)
EosKeys == {"eele", "eion", "eint", "pele", "pion", "zbar", "ion_frac"}

Range(s) == {s[i] : i \in 1..Len(s)}

\* np.in1d(a, b)
in1d(a, b) == [i \in 1..Len(a) |-> a[i] \in Range(b)]

\* a[mask] for a boolean mask over the first axis.
MaskRows(v, mask) ==
    LET rowlen == Prod(Tail(v.shape))
        rows == Sorted({i \in 1..Len(mask) : mask[i]})
    IN  [v EXCEPT
           !.shape = <<Len(rows)>> \o Tail(v.shape),
           !.data = Concat([j \in 1..Len(rows) |->
                              SubSeq(v.data, (rows[j] - 1) * rowlen + 1,
                                     rows[j] * rowlen)])]

\* A boolean index as long as the axis it indexes selects rows.  One of
\* another length raises IndexError in numpy 1.13 and later; before that it
\* warns and selects the rows it names, raising only when it names a row the
\* array does not have.  The numpy in use is not fixed by the source: both.
MaskFits(v, mask) == v.shape[1] = Len(mask)
MaskInRange(v, mask) == \A i \in 1..Len(mask) : mask[i] => i <= v.shape[1]

remove_extra_qeos_pt(t) ==
    LET mask == in1d(t["nion_eos"].data, t["nion_opac"].data)
        t1 == Del(Put(Put(t, "nion", t["nion_opac"]), "temp", t["temp_opac"]),
                  {"nion_opac", "nion_eos", "temp_opac", "temp_eos"})
        masked == [tbl |-> [k \in DOMAIN t1 |->
                              IF k \in EosKeys THEN MaskRows(t1[k], mask) ELSE t1[k]],
                   err |-> NoErr]
        raised == [tbl |-> t1, err |-> Raise("IndexError", "")]
    IN  IF \A k \in EosKeys : MaskFits(t[k], mask) THEN {masked}
        ELSE IF \A k \in EosKeys : MaskInRange(t[k], mask) THEN {masked, raised}
        ELSE {raised}

RemoveExtraQeosPt ==
    /\ pc = "qeos" /\ err = NoErr
    /\ \E r \in remove_extra_qeos_pt(tbl) :
           /\ tbl' = r.tbl
           /\ err' = r.err
           /\ pc' = IF r.err = NoErr THEN "derive" ELSE pc
    /\ UNCHANGED <<doc, f_star, f_raw, section_begin, section_mid, section_end,
                   sidx, invoked>>

(***************************************************************************)
(* Lines 201-204: derived quantities                                       *)
(***************************************************************************)
\* Two axis lengths broadcast when they are equal or one of them is 1.
Broadcast1(a, b) == a = b \/ a = 1 \/ b = 1

BroadcastOk(sa, sb) ==
    /\ Len(sa) = Len(sb)
    /\ \A i \in 1..Len(sa) : Broadcast1(sa[i], sb[i])

BroadcastShape(sa, sb) == [i \in 1..Len(sa) |-> IF sa[i] = 1 THEN sb[i] ELSE sa[i]]

\* The position, in a 3-D array of shape sh, of the element that broadcasting
\* pairs with position <<i, j, k>> of the result (all 0-based).
FlatAt(sh, i, j, k) ==
    LET ii == IF sh[1] = 1 THEN 0 ELSE i
        jj == IF sh[2] = 1 THEN 0 ELSE j
        kk == IF sh[3] = 1 THEN 0 ELSE k
    IN  (ii * sh[2] + jj) * sh[3] + kk + 1

\* a / b raises ValueError when the shapes do not broadcast, or when two
\* paired elements of arrays of objects (arrays themselves) do not.
DivideOk(a, b) ==
    /\ BroadcastOk(a.shape, b.shape)
    /\ (a.kind = "object" /\ b.kind = "object") =>
         LET r == BroadcastShape(a.shape, b.shape)
         IN  \A i \in 0..(r[1] - 1) : \A j \in 0..(r[2] - 1) : \A k \in 0..(r[3] - 1) :
                 Broadcast1(Len(a.items[FlatAt(a.shape, i, j, k)]),
                            Len(b.items[FlatAt(b.shape, i, j, k)]))

\* The values of Abar, rho and eps_mg are floating point results; the model
\* keeps their shapes only.
Derive ==
    /\ pc = "derive" /\ err = NoErr
    /\ IF ~Has(tbl, "Xnum") THEN err' = Raise("KeyError", "Xnum") /\ tbl' = tbl
       ELSE IF ~Has(tbl, "Anum") THEN err' = Raise("KeyError", "Anum") /\ tbl' = tbl
       ELSE IF ~Broadcast1(Len(tbl["Xnum"].data), Len(tbl["Anum"].data))
       THEN err' = Raise("ValueError", "") /\ tbl' = tbl
       ELSE LET t1 == Put(Put(tbl, "Abar", DerivedV(<<>>)),
                          "rho", DerivedV(tbl["nion"].shape))
            IN  IF DivideOk(tbl["emp_mg"], tbl["opp_mg"])
                THEN /\ tbl' = Put(t1, "eps_mg",
                                   DerivedV(BroadcastShape(tbl["emp_mg"].shape,
                                                           tbl["opp_mg"].shape)))
                     /\ err' = err
                ELSE tbl' = t1 /\ err' = Raise("ValueError", "")
    /\ pc' = IF err' = NoErr THEN "done" ELSE pc
    /\ UNCHANGED <<doc, f_star, f_raw, section_begin, section_mid, section_end,
                   sidx, invoked>>

(***************************************************************************)
(* The files the constructor is run on                                     *)
(***************************************************************************)
MaxScanLines == 6
MaxDispatchSections == 2
MaxCont == 2
MaxGroups == 3

RECURSIVE FltLine(_)
FltLine(vals) ==
    IF vals = <<>> THEN <<>>
    ELSE IF Len(vals) = 1 THEN <<FltTok(vals[1])>>
    ELSE <<FltTok(vals[1]), Sp>> \o FltLine(Tail(vals))

Seq1(n) == [i \in 1..n |-> i]
Rep(n, x) == [i \in 1..n |-> x]
CountLine(n) == <<Ws(2), IntTok(n)>>
StarLine == <<Star>>
BlankLine == <<>>
HdrLine(expr) == <<Star, Sp>> \o expr
KeyIdx(k) == CHOOSE i \in 1..Len(actions) : actions[i].var = k
GridEosHdr == HdrLine(actions[1].expr)
GridOpacHdr == HdrLine(Phrase(<<"mesh", "parameters", "for", "opacity">>))
GroupsHdr == HdrLine(Phrase(<<"photon", "energy", "group", "structure">>))

\* Any sequence of marker and data lines.
ScanDocs ==
    UNION {[1..n -> {HdrLine(actions[5].expr), FltLine(<<1>>)}] : n \in 0..MaxScanLines}

\* A banner, then sections with headers of every kind and short bodies.
HeaderPool == {
    <<HdrLine(actions[5].expr)>>,
    <<HdrLine(actions[6].expr)>>,
    <<HdrLine(actions[14].expr)>>,
    <<HdrLine(actions[16].expr)>>,
    <<HdrLine(Phrase(<<"Some", "Comment">>))>>,
    <<HdrLine(Phrase(<<"Eint", "and", "Zbar">>))>>,
    <<StarLine, <<Star, Sp, Word("Int.")>>,
      <<Star, Ws(3), Word("Rosseland"), Ws(2), Word("Mean"), Sp, Word("Opacity"), Sp, Star>>>>,
    <<GroupsHdr>>,
    <<GridEosHdr>> }

BodyPool == {FltLine(<<1>>), FltLine(<<2, 3>>)}

SectionPool == {h \o <<b>> : h \in HeaderPool, b \in BodyPool}

DispatchDocs ==
    UNION {{<<StarLine, BlankLine>> \o Concat(ss) : ss \in [1..n -> SectionPool]} :
           n \in 0..MaxDispatchSections}

\* One grid section: a count, kt lines of values, a count, kn lines of values.
GridParams ==
    [Nt : {1, 12}, kt : 0..MaxCont, Nn : {1, 12}, kn : 0..MaxCont,
     line : {FltLine(<<5, 6>>), <<IntTok(7)>>}]

GridDoc(g) ==
    <<StarLine, BlankLine, GridEosHdr, CountLine(g.Nt)>> \o Rep(g.kt, g.line)
        \o <<CountLine(g.Nn)>> \o Rep(g.kn, g.line)

GridDocs == {GridDoc(g) : g \in GridParams}

\* A complete file: banner, lead blank lines, the global header lines, the
\* two grids, the group structure, one section per field and the multigroup
\* sections.
IonsLine(n) == <<Sp, Word("number of ions:"), Ws(3), IntTok(n)>>
ZnumLine == <<Sp, Word("atomic #s of gases:"), Ws(2)>> \o FltLine(<<6>>)
AnumLine(v) == <<Sp, Word("atomic weight of gas:"), Sp>> \o FltLine(v)
XnumLine(v) == <<Sp, Word("relative fractions:"), Sp>> \o FltLine(v)

ValueLines(v) == IF v = <<>> THEN <<>> ELSE <<FltLine(v)>>

GridBody(nT, temp, nN, nion) ==
    <<CountLine(nT)>> \o ValueLines(temp) \o <<CountLine(nN)>> \o ValueLines(nion)

Section(p, name, hdr, body) == IF name \in p.omit THEN <<>> ELSE <<hdr>> \o body

FieldSize(p, k) ==
    (IF k \in {"opr_int", "emp_int", "opp_int"}
     THEN Len(p.nO) * Len(p.tO)
     ELSE p.nEcount * Len(p.tE) * (IF k = "ion_frac" THEN p.ions ELSE 1))
    + (IF p.extra = k THEN 1 ELSE 0)

FieldSections(p) ==
    Concat([i \in 1..10 |->
        LET k == actions[i + 3].var
        IN  Section(p, k, HdrLine(actions[i + 3].expr), <<FltLine(Seq1(FieldSize(p, k)))>>)])

MgSections(p, k, lens) ==
    Concat([i \in 1..Len(lens) |->
        Section(p, k, HdrLine(actions[KeyIdx(k)].expr), <<FltLine(Seq1(lens[i]))>>)])

FullDoc(p) ==
    <<StarLine>> \o Rep(p.lead, BlankLine) \o p.gh
      \o Section(p, "grid_eos", GridEosHdr, GridBody(Len(p.tE), p.tE, p.nEcount, p.nE))
      \o Section(p, "grid_opac", GridOpacHdr, GridBody(Len(p.tO), p.tO, Len(p.nO), p.nO))
      \o Section(p, "groups", GroupsHdr, <<FltLine(Seq1(p.grp))>>)
      \o FieldSections(p)
      \o MgSections(p, "opr_mg", p.mgOpr)
      \o MgSections(p, "emp_mg", p.mgEmp)
      \o MgSections(p, "opp_mg", p.mgOpp)

GHFull == <<IonsLine(1), ZnumLine, AnumLine(<<12>>), XnumLine(<<1>>)>>

Base ==
    [lead |-> 14, gh |-> GHFull, ions |-> 1,
     tE |-> <<1>>, nE |-> <<10, 20>>, nEcount |-> 2, tO |-> <<1>>, nO |-> <<10>>,
     grp |-> 2, omit |-> {}, extra |-> "",
     mgOpr |-> <<1>>, mgEmp |-> <<1>>, mgOpp |-> <<1>>]

GHOptions == {
    GHFull,
    <<IonsLine(1), AnumLine(<<12>>), XnumLine(<<1>>)>>,
    <<ZnumLine, AnumLine(<<12>>), XnumLine(<<1>>)>>,
    <<IonsLine(1), ZnumLine, XnumLine(<<1>>)>>,
    <<IonsLine(1), ZnumLine, AnumLine(<<12>>)>>,
    <<<<Sp, Word("number of ions:"), Sp, FltTok(1)>>, ZnumLine, AnumLine(<<12>>), XnumLine(<<1>>)>>,
    <<IonsLine(1), ZnumLine, AnumLine(<<12>>), XnumLine(<<1>>), XnumLine(<<2>>)>>,
    <<IonsLine(1), ZnumLine, AnumLine(<<12, 13>>), XnumLine(<<1, 2, 3>>)>>,
    <<IonsLine(1), ZnumLine, AnumLine(<<12>>), XnumLine(<<1>>), <<Ws(2)>> \o Tail(IonsLine(2))>>,
    <<IonsLine(2), ZnumLine, AnumLine(<<12>>), XnumLine(<<1>>)>>,
    <<IonsLine(2), IonsLine(1), ZnumLine, AnumLine(<<12>>), XnumLine(<<1>>)>> }

HeaderParams == {[Base EXCEPT !.lead = l, !.gh = g] : l \in {13, 14, 15}, g \in GHOptions}

SectionNames == {"grid_eos", "grid_opac", "groups"} \cup ShapeKeys

FieldParams ==
    {[Base EXCEPT !.omit = {k}] : k \in SectionNames}
      \cup {[Base EXCEPT !.extra = k] : k \in ShapeKeys \ MultigroupKeys}

GridFullParams ==
    {[Base EXCEPT !.tE = a, !.nE = b, !.nEcount = c, !.tO = d, !.nO = e,
                  !.mgOpr = Rep(Len(d) * Len(e), 1),
                  !.mgEmp = Rep(Len(d) * Len(e), 1),
                  !.mgOpp = Rep(Len(d) * Len(e), 1)] :
        a \in {<<1>>, <<1, 2>>}, b \in {<<10, 20>>, <<10>>},
        c \in {1, 2}, d \in {<<1>>, <<1, 2>>},
        e \in {<<10>>, <<10, 20>>, <<30>>, <<10, 30>>}}

MgLens == {<<>>, <<1>>, <<2>>, <<1, 1>>, <<1, 2>>, <<2, 2>>, <<2, 3>>}

MgParams ==
    {[Base EXCEPT !.nO = <<10, 20>>, !.grp = g, !.mgOpr = a, !.mgEmp = a, !.mgOpp = b] :
        g \in 0..MaxGroups, a \in MgLens, b \in MgLens}

FullParams == HeaderParams \cup FieldParams \cup GridFullParams \cup MgParams

FullDocs == {FullDoc(p) : p \in FullParams}

Docs == ScanDocs \cup DispatchDocs \cup GridDocs \cup FullDocs

(***************************************************************************)
(* The specification                                                       *)
(***************************************************************************)
Init ==
    /\ doc \in Docs
    /\ pc = "read"
    /\ f_star = <<>>
    /\ f_raw = <<>>
    /\ section_begin = <<>>
    /\ section_mid = <<>>
    /\ section_end = <<>>
    /\ sidx = 0
    /\ tbl = EmptyTable
    /\ err = NoErr
    /\ invoked = <<>>

Next ==
    \/ ReadFile
    \/ ScanSections
    \/ ParseGlobalHeader
    \/ InitLists
    \/ DispatchSection
    \/ StackMultigroup
    \/ ReadCounts
    \/ Reshape
    \/ RemoveExtraQeosPt
    \/ Derive

Spec == Init /\ [][Next]_vars

(***************************************************************************)
(* Claims                                                                  *)
(***************************************************************************)
\* The scanner has run (it returned or raised).
ScanRan == pc # "read" /\ ~(pc = "scan" /\ err = NoErr)
\* The scanner returned: __init__ went on to the global header.
ScanAccepted == pc \notin {"read", "scan"}

\* C1: when the numbers of begin, mid and end boundaries are not all equal,
\* the call ends in the scanner with a ValueError, before the global header
\* is parsed or any section dispatched (the table is empty, no section was
\* dispatched, nothing is returned); past the scanner the three are equal.
C1_UnequalCountsAbort ==
    LET equal == Len(section_begin) = Len(section_mid)
                   /\ Len(section_mid) = Len(section_end)
    IN  /\ ~equal => /\ pc = "scan"
                     /\ err.type = "ValueError"
                     /\ tbl = EmptyTable
                     /\ sidx = 0
                     /\ invoked = <<>>
        /\ ScanAccepted => equal

C1_Witness ==
    /\ pc = "scan"
    /\ err.type = "ValueError"
    /\ Len(section_mid) # Len(section_begin)

\* The boundaries describe the sections of the file: the begins are exactly
\* the non-marker to marker transitions; each mid is the first marker to
\* non-marker transition after its begin; each end is the next begin, or the
\* length of the file; begin < mid < end; header lines are marker lines and
\* body lines are not.  (Indices are 0-based, f_star is 1-based.)
SectionsWellFormed ==
    LET n == Len(f_star)
        k == Len(section_begin)
    IN  /\ Len(section_mid) = k
        /\ Len(section_end) = k
        /\ {section_begin[s] : s \in 1..k}
             = {i \in 1..(n - 1) : f_star[i] = 0 /\ f_star[i + 1] = 1}
        /\ \A s \in 1..k :
             /\ section_begin[s] < section_mid[s]
             /\ section_mid[s] < section_end[s]
             /\ section_end[s] <= n
             /\ \A j \in (section_begin[s] + 1)..section_mid[s] : f_star[j] = 1
             /\ \A j \in (section_mid[s] + 1)..section_end[s] : f_star[j] = 0
             /\ section_end[s] = IF s < k THEN section_begin[s + 1] ELSE n

Matches(s) ==
    {i \in 1..Len(actions) : Contains(actions[i].expr, _parse_header(HeaderTxt(s)))}

FirstMatch(s) == CHOOSE i \in Matches(s) : \A j \in Matches(s) : i <= j

\* The keys the parser of entry i stores.
Written(i) ==
    CASE actions[i].process = "grid_eos" -> {"N_temp_eos", "temp_eos", "N_nion_eos", "nion_eos"}
      [] actions[i].process = "grid_opac" -> {"N_temp_opac", "temp_opac", "N_nion_opac", "nion_opac"}
      [] actions[i].process = "groups" -> {"groups"}
      [] OTHER -> {actions[i].var}

\* C6: the dispatch of a section invokes at most one parser, that of the
\* first entry of the keyword table whose keyword occurs in the normalized
\* header, and changes no key but those of that parser; a header in which
\* 'Int. Rosseland Mean Opacity' occurs never appends to opr_mg, and is
\* stored under opr_int when that entry is the first; a header in which no
\* keyword occurs invokes nothing and leaves the table unchanged.
C6_FirstMatchOnly ==
    [][(pc = "dispatch" /\ sidx' = sidx + 1) =>
        LET s == sidx + 1
        IN  IF Matches(s) = {}
            THEN tbl' = tbl /\ invoked'[s] = <<>> /\ err' = NoErr
            ELSE /\ invoked'[s] = <<FirstMatch(s)>>
                 /\ \A k \in DOMAIN tbl \ Written(FirstMatch(s)) :
                        k \in DOMAIN tbl' /\ tbl'[k] = tbl[k]
                 /\ DOMAIN tbl' \subseteq DOMAIN tbl \cup Written(FirstMatch(s))
                 /\ 6 \in Matches(s) => tbl'["opr_mg"] = tbl["opr_mg"]
                 /\ FirstMatch(s) = 6 => tbl'["opr_int"] = ArrV(str2float(DataTxt(s)))
      ]_vars

C6_Witness ==
    /\ pc = "dispatch"
    /\ \E s \in 1..Len(invoked) : invoked[s] = <<6>> /\ Len(HeaderTxt(s)) = 3
    /\ Has(tbl, "opr_int")
    /\ tbl["opr_mg"].items = <<>>

\* The field section s is classified to ("None" for the grids, the group
\* structure and the sections no keyword occurs in).
Classified(s) == IF Matches(s) = {} THEN "None" ELSE actions[FirstMatch(s)].var

\* The classes of the field sections 1..n, in document order.
RECURSIVE ClassSeq(_)
ClassSeq(n) == IF n = 0 THEN <<>> ELSE Append(ClassSeq(n - 1), Classified(n))

\* The arrays parsed from the bodies of the field sections 1..n.
RECURSIVE ParsedSeq(_)
ParsedSeq(n) ==
    IF n = 0 THEN <<>> ELSE Append(ParsedSeq(n - 1), str2float(DataTxt(n)))

\* C8: while the scan runs and when it has ended, each multigroup key holds
\* one parsed array per section classified to it so far, in document order,
\* and every other array key holds the array of the last section classified
\* to it (and is absent when there was none).
C8_AppendVersusOverwrite ==
    (pc = "dispatch" /\ err = NoErr) =>
        LET class == ClassSeq(sidx)
            parsed == ParsedSeq(sidx)
            SectionsOf(k) == Sorted({s \in 1..sidx : class[s] = k})
        IN  /\ \A k \in MultigroupKeys :
                 LET ss == SectionsOf(k)
                 IN  /\ tbl[k].kind = "list"
                     /\ tbl[k].items = [j \in 1..Len(ss) |-> parsed[ss[j]]]
            /\ \A k \in ShapeKeys \ MultigroupKeys :
                 LET ss == SectionsOf(k)
                 IN  IF ss = <<>> THEN ~Has(tbl, k)
                     ELSE tbl[k] = ArrV(parsed[ss[Len(ss)]])

C8_Witness ==
    /\ pc = "dispatch"
    /\ err = NoErr
    /\ sidx = Len(section_begin)
    /\ Len(tbl["opr_mg"].items) = 2
    /\ tbl["opr_mg"].items[1] # tbl["opr_mg"].items[2]
    /\ \E s \in 1..sidx : Classified(s) = "zbar"

\* The value the global header parser stores for a line matching entry e.
HeaderValue(e, line) ==
    IF e.func = "int" THEN IntV(IntOf(LabelStrip(line)))
    ELSE ArrV(FromString(LabelStrip(line)))

\* The (1-based) lines among from..section_begin[0] that match entry e.
HeaderMatches(e, from) ==
    {i \in from..section_begin[1] : i <= Len(f_raw) /\ LabelMatch(e.label, f_raw[i])}

Last(S) == CHOOSE i \in S : \A j \in S : j <= i

\* Once the global header parser has returned, every key of expr_list holds
\* the value of the last matching line at or after line `from` and before
\* the first section, and is absent when no such line matches; before the
\* first dispatch the table holds nothing else.
HeaderStored(from) ==
    (pc \notin {"read", "scan", "global"}) =>
        /\ \A j \in 1..Len(expr_list) :
             LET e == expr_list[j]
                 m == HeaderMatches(e, from)
             IN  IF m = {} THEN ~Has(tbl, e.key)
                 ELSE Has(tbl, e.key) /\ tbl[e.key] = HeaderValue(e, f_raw[Last(m)])
        /\ pc = "lists" => DOMAIN tbl \subseteq {expr_list[j].key : j \in 1..Len(expr_list)}

\* C9 (as amended): the lines read are those from the 16th line of the file
\* (index 15) up to the first section's header; of these, every line that
\* matches a pattern has its value stored under the pattern's key before any
\* section is dispatched, a later line for the same key replacing an
\* earlier one; the other lines, and the first 15 lines of the file, leave
\* the table unchanged; a "number of ions" line that is not followed by one
\* integer literal ends the call with a ValueError.
C9_HeaderStoredFromLine15 ==
    /\ HeaderStored(GlobalHeaderStart + 1)
    /\ (pc = "global" /\ err # NoErr) =>
         /\ err.type = "ValueError"
         /\ \E i \in HeaderMatches(expr_list[1], GlobalHeaderStart + 1) :
                ~IntOk(LabelStrip(f_raw[i]))

C9_Witness ==
    /\ pc = "lists"
    /\ DOMAIN tbl = {"Num_ions", "Znum", "Anum", "Xnum"}
    /\ \E i \in 1..GlobalHeaderStart : LabelMatch(expr_list[1].label, f_raw[i])

\* C9 (as claimed): every line before the first section's header that
\* matches a pattern has its value stored under the pattern's key.
C9_HeaderStoredEveryLine == HeaderStored(1)

\* The elements of a stored array: its numbers, or its objects.
Elements(v) == IF v.kind = "object" THEN Len(v.items) ELSE Len(v.data)

\* The number n of elements can be given the shape target.
Fits(n, target) ==
    LET known == SelectSeq(target, IsNonNeg)
    IN  IF Len(known) = Len(target) THEN n = Prod(target)
        ELSE Prod(known) > 0 /\ n % Prod(known) = 0

C2_MisalignedGridRaises ==
    \A g \in GridParams :
        (/\ doc = GridDoc(g)
         /\ g.kt # N_skip(g.Nt)
         /\ pc = "dispatch"
         /\ sidx = 1)
          => err # NoErr

\* C4: remove_extra_qeos_pt leaves every EOS-keyed array with as many rows
\* as nion_opac has points, and nion equal to nion_opac.
C4_EosRowsMatchOpacityGrid ==
    [][(pc = "qeos" /\ pc' = "derive") =>
        /\ tbl'["nion"] = tbl["nion_opac"]
        /\ \A k \in EosKeys : tbl'[k].shape[1] = Len(tbl["nion_opac"].data)
      ]_vars

OutputFields ==
    {"temp", "nion", "rho", "groups", "N_groups", "zbar", "eint", "eion",
     "eele", "pion", "pele", "ion_frac", "opr_int", "emp_int", "opp_int",
     "opr_mg", "emp_mg", "opp_mg", "eps_mg", "Znum", "Anum", "Xnum", "Abar",
     "Num_ions"}

\* C5: a call that returns has stored every output field.
C5_AllFieldsPresent == pc = "done" => OutputFields \subseteq DOMAIN tbl

\* C10: in a returned table the second dimension of every gridded field is
\* the length of temp, and the separate grid fields are gone.
C10_UnifiedGrid ==
    pc = "done" =>
        /\ \A k \in ShapeKeys : tbl[k].shape[2] = Len(tbl["temp"].data)
        /\ DOMAIN tbl \cap {"nion_eos", "nion_opac", "temp_eos", "temp_opac"} = {}

=============================================================================
